---- MODULE Spec2Model ----
(***************************************************************************)
(* Model of the RideReady App component (src/src/App.jsx and its grid      *)
(* revision src/unnamed/part_000): the React state of the component, the   *)
(* geolocation effect, fetchWeatherData with its effect and its button,    *)
(* the responses of the forecast service, the four criteria sliders, and   *)
(* the two derivations findRidingWindows / organizeWeatherGrid that every  *)
(* render recomputes.                                                      *)
(*                                                                         *)
(* Conventions.  A JavaScript null coordinate is the string NullCoord; a   *)
(* null weatherData is the record NullData; a null grid cell is NullCell.  *)
(* An hourly time stamp "YYYY-MM-DDTHH:00" is the number of hours since    *)
(* local midnight of the first forecast day; new Date(..) of it is that    *)
(* many milliseconds.                                                      *)
(***************************************************************************)
EXTENDS Integers, Sequences, FiniteSets, TLC

VARIABLES
    latitude, longitude,          \* useState(null), App.jsx:7-8
    maxPrecipitation,             \* App.jsx:11
    maxWindSpeed,                 \* App.jsx:12
    minTemperature,               \* App.jsx:13
    maxTemperature,               \* App.jsx:14
    weatherData,                  \* App.jsx:40
    loading,                      \* App.jsx:42
    error,                        \* App.jsx:44
    geo,                          \* progress of the geolocation effect, App.jsx:17-38
    pendingEffect,                \* the fetch effect is scheduled (fetchWeatherData changed identity)
    inflight,                     \* the requests whose fetch() has not settled, in order of issue
    ridingWindows,                \* the last render's findRidingWindows(), App.jsx:138
    gridView,                     \* the last render's organizeWeatherGrid(), part_000:142
    dataFrom,                     \* history: which request's body weatherData holds
    errFrom,                      \* history: which request's failure set error
    lastOp                        \* history: the last fetchWeatherData call or settled fetch

vars == <<latitude, longitude, maxPrecipitation, maxWindSpeed, minTemperature,
          maxTemperature, weatherData, loading, error, geo, pendingEffect,
          inflight, ridingWindows, gridView, dataFrom, errFrom, lastOp>>

-----------------------------------------------------------------------------
(* Bounds of the model *)

\* how many requests the user lets be outstanding at once
MaxInFlight == 2

\* how many hours a forecast has at most
MaxHours == 4

-----------------------------------------------------------------------------
(* Values *)

NullCoord == "<null>"
NullData == [null |-> TRUE]
NullCell == [null |-> TRUE]

DefaultLatitude == "-37.8136"
DefaultLongitude == "144.9631"

AdvisoryFailed == "Unable to get your location. Using Melbourne as default."
AdvisoryUnsupported == "Geolocation not supported by this browser. Using Melbourne as default."
FetchError == "Failed to fetch weather data. Please try again."

DEFAULT_MAX_PRECIPITATION == 0
DEFAULT_MAX_WIND_SPEED == 20
DEFAULT_MIN_TEMPERATURE == 10
DEFAULT_MAX_TEMPERATURE == 35

MsPerHour == 60 * 60 * 1000
HoursPerDay == 24
FirstGridHour == 6

\* what the user can type into a coordinate field
UserCoords == {"", "1"}
\* what the location capability can report
GeoPositions == {[latitude |-> 1, longitude |-> 1]}

\* what the sliders are moved to
PrecipitationChoices == {DEFAULT_MAX_PRECIPITATION, 1}
WindSpeedChoices == {DEFAULT_MAX_WIND_SPEED, 30}
MinTemperatureChoices == {DEFAULT_MIN_TEMPERATURE, 40}
MaxTemperatureChoices == {DEFAULT_MAX_TEMPERATURE, 12}

\* hourly bodies the forecast service answers with
HourlyA == [time |-> <<5, 6, 7, 30, 31>>,
            precipitation |-> <<0, 0, 1, 0, 0>>,
            wind_speed_10m |-> <<5, 5, 5, 25, 5>>,
            temperature_2m |-> <<11, 15, 15, 15, 36>>]
HourlyEmpty == [time |-> <<>>, precipitation |-> <<>>,
                wind_speed_10m |-> <<>>, temperature_2m |-> <<>>]

Bodies == {[hourly |-> HourlyA], [hourly |-> HourlyEmpty], [reason |-> "no hourly"]}

\* the hours a forecast can have observations for: 05:00 to 08:00 of the
\* first day and 06:00 of the second
TimeChoices == {5, 6, 7, 8, 30}

\* what one hour of a forecast can be: fine, windy, wet
Observations ==
    {[precipitation |-> 0, wind_speed_10m |-> 5, temperature_2m |-> 15],
     [precipitation |-> 0, wind_speed_10m |-> 25, temperature_2m |-> 15],
     [precipitation |-> 1, wind_speed_10m |-> 5, temperature_2m |-> 15]}

\* the time arrays of the forecast service: strictly increasing
TimeSeqs ==
    {t \in UNION {[1..n -> TimeChoices] : n \in 0..MaxHours} :
        \A i \in 1..(Len(t) - 1) : t[i] < t[i + 1]}

\* the 2xx bodies with four parallel hourly arrays of equal length
ForecastBodies ==
    {[hourly |-> [time |-> t,
                  precipitation |-> [i \in 1..Len(t) |-> o[i].precipitation],
                  wind_speed_10m |-> [i \in 1..Len(t) |-> o[i].wind_speed_10m],
                  temperature_2m |-> [i \in 1..Len(t) |-> o[i].temperature_2m]]] :
        <<t, o>> \in UNION {{<<tt, oo>> : oo \in [1..Len(tt) -> Observations]} :
                              tt \in TimeSeqs}}

\* what new Date() reads when the component renders, in hours
ClockReadings == {0, 7}

\* how a fetch can settle: the body of a 2xx answer, or one of the failures
Failures == {"http_error", "transport_error", "invalid_json"}

-----------------------------------------------------------------------------
(* Dates *)

DateParse(t) == t * MsPerHour
getHours(d) == (d \div MsPerHour) % HoursPerDay
toDateString(d) == d \div (MsPerHour * HoursPerDay)

-----------------------------------------------------------------------------
(* The suitability predicate, App.jsx:101-105 and part_000:115-119 *)

\* mutant of isSuitable: the two temperature comparisons joined by ||
isSuitable_EitherTemperatureBound(p, w, t, crit) ==
    /\ p <= crit.maxPrecipitation
    /\ w <= crit.maxWindSpeed
    /\ (t >= crit.minTemperature \/ t <= crit.maxTemperature)

isSuitable(p, w, t, crit) ==
    /\ p <= crit.maxPrecipitation
    /\ w <= crit.maxWindSpeed
    /\ t >= crit.minTemperature
    /\ t <= crit.maxTemperature

Criteria(mp, mw, mint, maxt) ==
    [maxPrecipitation |-> mp, maxWindSpeed |-> mw,
     minTemperature |-> mint, maxTemperature |-> maxt]

hasHourly(wd) == wd # NullData /\ "hourly" \in DOMAIN wd

-----------------------------------------------------------------------------
(* findRidingWindows, App.jsx:84-136 *)

NoWindow == -1

\* mutant of windowsLoop: the block of App.jsx:124-133 is left out, a window
\* still open after the last hour is dropped
RECURSIVE windowsLoop_DropsOpenWindow(_, _, _, _, _)
windowsLoop_DropsOpenWindow(h, crit, i, currentWindowStart, windows) ==
    IF i > Len(h.time) THEN windows
    ELSE
        LET dateTime == DateParse(h.time[i])
            ok == isSuitable(h.precipitation[i], h.wind_speed_10m[i],
                             h.temperature_2m[i], crit)
        IN  IF ok THEN
                windowsLoop_DropsOpenWindow(h, crit, i + 1,
                            IF currentWindowStart = NoWindow THEN dateTime
                            ELSE currentWindowStart,
                            windows)
            ELSE IF currentWindowStart # NoWindow THEN
                windowsLoop_DropsOpenWindow(h, crit, i + 1, NoWindow,
                            Append(windows, [start |-> currentWindowStart,
                                             end |-> dateTime]))
            ELSE windowsLoop_DropsOpenWindow(h, crit, i + 1, NoWindow, windows)

RECURSIVE windowsLoop(_, _, _, _, _)
windowsLoop(h, crit, i, currentWindowStart, windows) ==
    IF i > Len(h.time) THEN
        IF currentWindowStart # NoWindow
        THEN Append(windows,
                    [start |-> currentWindowStart,
                     end |-> DateParse(h.time[Len(h.time)]) + 60 * 60 * 1000])
        ELSE windows
    ELSE
        LET dateTime == DateParse(h.time[i])
            ok == isSuitable(h.precipitation[i], h.wind_speed_10m[i],
                             h.temperature_2m[i], crit)
        IN  IF ok THEN
                windowsLoop(h, crit, i + 1,
                            IF currentWindowStart = NoWindow THEN dateTime
                            ELSE currentWindowStart,
                            windows)
            ELSE IF currentWindowStart # NoWindow THEN
                windowsLoop(h, crit, i + 1, NoWindow,
                            Append(windows, [start |-> currentWindowStart,
                                             end |-> dateTime]))
            ELSE windowsLoop(h, crit, i + 1, NoWindow, windows)

\* mutant of findRidingWindows: a closed window is put in front of the list
\* (unshift for push)
RECURSIVE Reversed(_)
Reversed(s) == IF s = <<>> THEN <<>> ELSE Append(Reversed(Tail(s)), Head(s))

findRidingWindows_Unshift(wd, crit) ==
    IF ~hasHourly(wd) THEN <<>>
    ELSE Reversed(windowsLoop(wd.hourly, crit, 1, NoWindow, <<>>))

\* mutant of findRidingWindows: only the first window is returned
findRidingWindows_FirstOnly(wd, crit) ==
    IF ~hasHourly(wd) THEN <<>>
    ELSE LET windows == windowsLoop(wd.hourly, crit, 1, NoWindow, <<>>)
         IN  IF windows = <<>> THEN <<>> ELSE <<windows[1]>>

findRidingWindows(wd, crit) ==
    IF ~hasHourly(wd) THEN <<>>
    ELSE windowsLoop(wd.hourly, crit, 1, NoWindow, <<>>)

-----------------------------------------------------------------------------
(* organizeWeatherGrid, part_000:90-140 *)

NoHours == [x \in {} |-> NullCell]

\* position of dayKey in dayMap (a Map, kept in insertion order), 0 when absent
dayIndex(dayMap, dayKey) ==
    LET hits == {k \in 1..Len(dayMap) : dayMap[k].key = dayKey}
    IN  IF hits = {} THEN 0 ELSE CHOOSE k \in hits : TRUE

RECURSIVE gridLoop(_, _, _, _, _, _)
gridLoop(h, crit, nowDate, i, dayMap, hoursSet) ==
    IF i > Len(h.time) THEN [dayMap |-> dayMap, hoursSet |-> hoursSet]
    ELSE
        LET dateTime == DateParse(h.time[i])
            dayKey == toDateString(dateTime)
            hour == getHours(dateTime)
            withDay == IF dayIndex(dayMap, dayKey) = 0
                       THEN Append(dayMap, [key |-> dayKey, date |-> dateTime,
                                            hours |-> NoHours])
                       ELSE dayMap
            k == dayIndex(withDay, dayKey)
            cell == [suitable |-> isSuitable(h.precipitation[i], h.wind_speed_10m[i],
                                             h.temperature_2m[i], crit),
                     temperature |-> h.temperature_2m[i],
                     precipitation |-> h.precipitation[i],
                     windSpeed |-> h.wind_speed_10m[i],
                     isPast |-> dateTime < nowDate]
            set == [withDay EXCEPT ![k].hours = (hour :> cell) @@ withDay[k].hours]
        IN  gridLoop(h, crit, nowDate, i + 1, set, hoursSet \cup {hour})

\* Array.prototype.sort((a, b) => a.date - b.date): a stable insertion sort
RECURSIVE insertByDate(_, _)
insertByDate(sorted, d) ==
    IF sorted = <<>> THEN <<d>>
    ELSE IF sorted[Len(sorted)].date - d.date > 0
         THEN Append(insertByDate(SubSeq(sorted, 1, Len(sorted) - 1), d),
                     sorted[Len(sorted)])
         ELSE Append(sorted, d)

RECURSIVE sortByDate(_)
sortByDate(s) ==
    IF s = <<>> THEN <<>>
    ELSE insertByDate(sortByDate(SubSeq(s, 1, Len(s) - 1)), s[Len(s)])

\* Array.from(hoursSet).sort((a, b) => a - b)
RECURSIVE sortAscending(_)
sortAscending(S) ==
    IF S = {} THEN <<>>
    ELSE LET m == CHOOSE x \in S : \A y \in S : x - y <= 0
         IN  <<m>> \o sortAscending(S \ {m})

\* mutant of filterDisplayHours: no filter, every observed hour is a column
filterDisplayHours_None(s) == s

filterDisplayHours(s) == SelectSeq(s, LAMBDA hour : hour >= FirstGridHour)

\* mutant of organizeWeatherGrid: every row looks its cells up in the first day
organizeWeatherGrid_FirstDayRow(wd, crit, nowDate) ==
    IF ~hasHourly(wd) THEN [days |-> <<>>, hours |-> <<>>, grid |-> <<>>]
    ELSE
        LET r == gridLoop(wd.hourly, crit, nowDate, 1, <<>>, {})
            days == sortByDate(r.dayMap)
            hours == filterDisplayHours(sortAscending(r.hoursSet))
            grid == [d \in 1..Len(days) |->
                        [day |-> days[d],
                         hours |-> [j \in 1..Len(hours) |->
                                      IF hours[j] \in DOMAIN days[1].hours
                                      THEN days[1].hours[hours[j]]
                                      ELSE NullCell]]]
        IN  [days |-> days, hours |-> hours, grid |-> grid]

\* mutant of organizeWeatherGrid: the cells are classified under the default
\* criteria, whatever the sliders say
organizeWeatherGrid_DefaultCriteria(wd, crit, nowDate) ==
    IF ~hasHourly(wd) THEN [days |-> <<>>, hours |-> <<>>, grid |-> <<>>]
    ELSE
        LET r == gridLoop(wd.hourly,
                          Criteria(DEFAULT_MAX_PRECIPITATION, DEFAULT_MAX_WIND_SPEED,
                                   DEFAULT_MIN_TEMPERATURE, DEFAULT_MAX_TEMPERATURE),
                          nowDate, 1, <<>>, {})
            days == sortByDate(r.dayMap)
            hours == filterDisplayHours(sortAscending(r.hoursSet))
            grid == [d \in 1..Len(days) |->
                        [day |-> days[d],
                         hours |-> [j \in 1..Len(hours) |->
                                      IF hours[j] \in DOMAIN days[d].hours
                                      THEN days[d].hours[hours[j]]
                                      ELSE NullCell]]]
        IN  [days |-> days, hours |-> hours, grid |-> grid]

organizeWeatherGrid(wd, crit, nowDate) ==
    IF ~hasHourly(wd) THEN [days |-> <<>>, hours |-> <<>>, grid |-> <<>>]
    ELSE
        LET r == gridLoop(wd.hourly, crit, nowDate, 1, <<>>, {})
            days == sortByDate(r.dayMap)
            hours == filterDisplayHours(sortAscending(r.hoursSet))
            grid == [d \in 1..Len(days) |->
                        [day |-> days[d],
                         hours |-> [j \in 1..Len(hours) |->
                                      IF hours[j] \in DOMAIN days[d].hours
                                      THEN days[d].hours[hours[j]]
                                      ELSE NullCell]]]
        IN  [days |-> days, hours |-> hours, grid |-> grid]

-----------------------------------------------------------------------------
(* The component's state and what a render derives from it *)

\* mutant of Absent: a test against null alone (latitude === null)
Absent_NullOnly(v) == v = NullCoord

\* !latitude, !longitude (App.jsx:51): null and the empty string are falsy
Absent(v) == v = NullCoord \/ v = ""

CurrentCriteria ==
    Criteria(maxPrecipitation, maxWindSpeed, minTemperature, maxTemperature)

\* a state change re-renders the component: App.jsx:138, part_000:142
Render ==
    /\ ridingWindows' = findRidingWindows(weatherData', CurrentCriteria')
    /\ \E clock \in ClockReadings :
         gridView' = organizeWeatherGrid(weatherData', CurrentCriteria',
                                         clock * MsPerHour)

NoRender == UNCHANGED <<ridingWindows, gridView>>

\* mutant of depsChanged: a dependency array that lists latitude alone
depsChanged_LatitudeOnly(lat, lon, newLat, newLon) == lat # newLat

\* useCallback(..., [latitude, longitude]) (App.jsx:76): fetchWeatherData is a
\* new function, and the effect of App.jsx:79-81 runs again, when a dependency differs
depsChanged(lat, lon, newLat, newLon) == lat # newLat \/ lon # newLon

\* the value an input shows: value={latitude || ''}, part_000:175
shown(v) == IF v = NullCoord THEN "" ELSE v

\* history records: which call or settled fetch ran last, what made the call,
\* the tag of its request, whether that was the request issued last, and
\* whether the body it settled with has the hourly arrays
Op(name, by, tag, latest, hourly) ==
    [op |-> name, by |-> by, tag |-> tag, latest |-> latest, hourly |-> hourly]
OtherOp == Op("other", "none", "plain", FALSE, FALSE)

\* history: "latest" for the request issued last, "stale" for an earlier one
Origin(r) == IF r.latest THEN "latest" ELSE "stale"

criteriaVars == <<maxPrecipitation, maxWindSpeed, minTemperature, maxTemperature>>
coordVars == <<latitude, longitude>>
fetchVars == <<weatherData, loading, error, inflight, dataFrom, errFrom>>

\* the handlers below run after the mount effects and never between a render and
\* the effects that render scheduled
Idle == geo # "init" /\ pendingEffect = "none"

Init ==
    /\ latitude = NullCoord
    /\ longitude = NullCoord
    /\ maxPrecipitation = DEFAULT_MAX_PRECIPITATION
    /\ maxWindSpeed = DEFAULT_MAX_WIND_SPEED
    /\ minTemperature = DEFAULT_MIN_TEMPERATURE
    /\ maxTemperature = DEFAULT_MAX_TEMPERATURE
    /\ weatherData = NullData
    /\ loading = FALSE
    /\ error = ""
    /\ geo = "init"
    /\ pendingEffect = "none"
    /\ inflight = <<>>
    /\ ridingWindows = <<>>
    /\ gridView = [days |-> <<>>, hours |-> <<>>, grid |-> <<>>]
    /\ dataFrom = "none"
    /\ errFrom = "none"
    /\ lastOp = OtherOp

-----------------------------------------------------------------------------
(* fetchWeatherData, App.jsx:49-76 *)

\* the request fetch(apiUrl) sends, App.jsx:61-63
\* history: a request is tagged "fallback" when the fallback coordinates
\* triggered it and "recovery" when the button started it after a failed fetch
Tag(by) ==
    IF by = "fallback" THEN "fallback"
    ELSE IF by = "manual" /\ error = FetchError /\ ~loading THEN "recovery"
    ELSE "plain"

Request(by) ==
    [latitude |-> latitude, longitude |-> longitude, tag |-> Tag(by),
     latest |-> TRUE]

\* the requests already in flight are no longer the one issued last
Superseded(reqs) == [k \in 1..Len(reqs) |-> [reqs[k] EXCEPT !.latest = FALSE]]

\* mutant of startFetch: setWeatherData(null) is left out
startFetch_KeepsData(by) ==
    /\ loading' = TRUE
    /\ error' = ""
    /\ UNCHANGED <<weatherData, dataFrom>>
    /\ inflight' = Append(Superseded(inflight), Request(by))
    /\ errFrom' = "none"
    /\ lastOp' = Op("started", by, Tag(by), TRUE, FALSE)

\* App.jsx:55-63: the three setters and the fetch(apiUrl) call
startFetch(by) ==
    /\ loading' = TRUE
    /\ error' = ""
    /\ weatherData' = NullData
    /\ inflight' = Append(Superseded(inflight), Request(by))
    /\ dataFrom' = "none"
    /\ errFrom' = "none"
    /\ lastOp' = Op("started", by, Tag(by), TRUE, FALSE)

\* App.jsx:51-53: the early return
fetchWeatherData(by) ==
    IF Absent(latitude) \/ Absent(longitude)
    THEN UNCHANGED fetchVars /\ lastOp' = Op("returned", by, "plain", FALSE, FALSE)
    ELSE startFetch(by)

\* App.jsx:63-69 then 73-75: response.ok, response.json() gave body
fetchResolved(r, body) ==
    /\ weatherData' = body
    /\ dataFrom' = Origin(r)
    /\ loading' = FALSE
    /\ UNCHANGED <<error, errFrom>>
    /\ lastOp' = Op("resolved", "none", r.tag, r.latest, "hourly" \in DOMAIN body)

\* mutant of fetchRejected: no finally block, loading is not reset on failure
fetchRejected_StaysLoading(r, failure) ==
    /\ error' = FetchError
    /\ errFrom' = Origin(r)
    /\ UNCHANGED <<weatherData, dataFrom, loading>>
    /\ lastOp' = Op("rejected", "none", r.tag, r.latest, FALSE)

\* App.jsx:65-67 / 70-75: !response.ok, or fetch() or response.json() rejected
fetchRejected(r, failure) ==
    /\ error' = FetchError
    /\ errFrom' = Origin(r)
    /\ loading' = FALSE
    /\ UNCHANGED <<weatherData, dataFrom>>
    /\ lastOp' = Op("rejected", "none", r.tag, r.latest, FALSE)

\* a sequence without its k-th element
Without(seq, k) == SubSeq(seq, 1, k - 1) \o SubSeq(seq, k + 1, Len(seq))

-----------------------------------------------------------------------------
(* Handlers *)

\* App.jsx:17-38, the mount effects: the geolocation effect, then the fetch
\* effect of the first render, whose fetchWeatherData sees null coordinates
\* and returns at once
Mount ==
    /\ geo = "init"
    /\ \E supported \in BOOLEAN :
         IF supported
         THEN /\ geo' = "pending"
              /\ pendingEffect' = "none"
              /\ UNCHANGED <<latitude, longitude, error>>
         ELSE /\ geo' = "unsupported"
              /\ latitude' = DefaultLatitude
              /\ longitude' = DefaultLongitude
              /\ error' = AdvisoryUnsupported
              /\ pendingEffect' = "fallback"
    /\ lastOp' = Op("returned", "mount", "plain", FALSE, FALSE)
    /\ UNCHANGED <<weatherData, loading, inflight, dataFrom, errFrom>>
    /\ UNCHANGED criteriaVars
    /\ IF geo' = "unsupported" THEN Render ELSE NoRender

\* App.jsx:20-23, the success callback of getCurrentPosition
GeoSuccess ==
    /\ Idle /\ geo = "pending"
    /\ Len(inflight) < MaxInFlight
    /\ \E position \in GeoPositions :
         /\ latitude' = ToString(position.latitude)
         /\ longitude' = ToString(position.longitude)
    /\ geo' = "resolved"
    /\ pendingEffect' = IF depsChanged(latitude, longitude, latitude', longitude')
                        THEN "geo" ELSE "none"
    /\ lastOp' = OtherOp
    /\ UNCHANGED fetchVars /\ UNCHANGED criteriaVars
    /\ Render

\* App.jsx:24-30, the error callback of getCurrentPosition
GeoError ==
    /\ Idle /\ geo = "pending"
    /\ Len(inflight) < MaxInFlight
    /\ latitude' = DefaultLatitude
    /\ longitude' = DefaultLongitude
    /\ error' = AdvisoryFailed
    /\ geo' = "failed"
    /\ pendingEffect' = IF depsChanged(latitude, longitude, latitude', longitude')
                        THEN "fallback" ELSE "none"
    /\ lastOp' = OtherOp
    /\ UNCHANGED <<weatherData, loading, inflight, dataFrom, errFrom>>
    /\ UNCHANGED criteriaVars
    /\ Render

\* App.jsx:172, onChange of the latitude field
SetLatitude ==
    /\ Idle
    /\ Len(inflight) < MaxInFlight
    /\ \E v \in UserCoords :
         /\ v # shown(latitude)
         /\ latitude' = v
    /\ pendingEffect' = IF depsChanged(latitude, longitude, latitude', longitude)
                        THEN "edit" ELSE "none"
    /\ lastOp' = OtherOp
    /\ UNCHANGED <<longitude, geo>>
    /\ UNCHANGED fetchVars /\ UNCHANGED criteriaVars
    /\ Render

\* App.jsx:179, onChange of the longitude field
SetLongitude ==
    /\ Idle
    /\ Len(inflight) < MaxInFlight
    /\ \E v \in UserCoords :
         /\ v # shown(longitude)
         /\ longitude' = v
    /\ pendingEffect' = IF depsChanged(latitude, longitude, latitude, longitude')
                        THEN "edit" ELSE "none"
    /\ lastOp' = OtherOp
    /\ UNCHANGED <<latitude, geo>>
    /\ UNCHANGED fetchVars /\ UNCHANGED criteriaVars
    /\ Render

\* mutant of FetchEffect: the derived views are kept from the render before
\* the fetch started
FetchEffect_StaleViews ==
    /\ pendingEffect # "none"
    /\ pendingEffect' = "none"
    /\ fetchWeatherData(pendingEffect)
    /\ UNCHANGED <<latitude, longitude, geo>>
    /\ UNCHANGED criteriaVars
    /\ NoRender

\* App.jsx:79-81, the effect on [fetchWeatherData]
FetchEffect ==
    /\ pendingEffect # "none"
    /\ pendingEffect' = "none"
    /\ fetchWeatherData(pendingEffect)
    /\ UNCHANGED <<latitude, longitude, geo>>
    /\ UNCHANGED criteriaVars
    /\ IF inflight' # inflight THEN Render ELSE NoRender

\* mutant of ManualRefresh: the button is disabled while an error is shown too
ManualRefresh_DisabledOnError ==
    /\ Idle
    /\ ~loading /\ error = ""
    /\ Len(inflight) < MaxInFlight
    /\ fetchWeatherData("manual")
    /\ UNCHANGED <<latitude, longitude, geo, pendingEffect>>
    /\ UNCHANGED criteriaVars
    /\ IF inflight' # inflight THEN Render ELSE NoRender

\* App.jsx:235-243, the Refresh button: onClick={fetchWeatherData} disabled={loading}
ManualRefresh ==
    /\ Idle
    /\ ~loading
    /\ Len(inflight) < MaxInFlight
    /\ fetchWeatherData("manual")
    /\ UNCHANGED <<latitude, longitude, geo, pendingEffect>>
    /\ UNCHANGED criteriaVars
    /\ IF inflight' # inflight THEN Render ELSE NoRender

\* mutant of Respond: a failed request is sent again from the catch block
Respond_RetriesOnFailure ==
    /\ Idle
    /\ \E k \in 1..Len(inflight) :
         \/ /\ \E body \in Bodies : fetchResolved(inflight[k], body)
            /\ inflight' = Without(inflight, k)
         \/ /\ \E failure \in Failures : fetchRejected(inflight[k], failure)
            /\ inflight' = Append(Without(inflight, k), inflight[k])
    /\ UNCHANGED <<latitude, longitude, geo, pendingEffect>>
    /\ UNCHANGED criteriaVars
    /\ Render

\* the awaited fetch of App.jsx:63 settles
Respond ==
    /\ Idle
    /\ \E k \in 1..Len(inflight) :
         /\ \/ \E body \in Bodies : fetchResolved(inflight[k], body)
            \/ \E failure \in Failures : fetchRejected(inflight[k], failure)
         /\ inflight' = Without(inflight, k)
    /\ UNCHANGED <<latitude, longitude, geo, pendingEffect>>
    /\ UNCHANGED criteriaVars
    /\ Render

\* App.jsx:261, 275, 289, 303: onChange of the four sliders
SetMaxPrecipitation ==
    /\ Idle
    /\ \E v \in PrecipitationChoices : v # maxPrecipitation /\ maxPrecipitation' = v
    /\ UNCHANGED <<maxWindSpeed, minTemperature, maxTemperature>>
    /\ lastOp' = OtherOp
    /\ UNCHANGED coordVars /\ UNCHANGED fetchVars /\ UNCHANGED <<geo, pendingEffect>>
    /\ Render

SetMaxWindSpeed ==
    /\ Idle
    /\ \E v \in WindSpeedChoices : v # maxWindSpeed /\ maxWindSpeed' = v
    /\ UNCHANGED <<maxPrecipitation, minTemperature, maxTemperature>>
    /\ lastOp' = OtherOp
    /\ UNCHANGED coordVars /\ UNCHANGED fetchVars /\ UNCHANGED <<geo, pendingEffect>>
    /\ Render

SetMinTemperature ==
    /\ Idle
    /\ \E v \in MinTemperatureChoices : v # minTemperature /\ minTemperature' = v
    /\ UNCHANGED <<maxPrecipitation, maxWindSpeed, maxTemperature>>
    /\ lastOp' = OtherOp
    /\ UNCHANGED coordVars /\ UNCHANGED fetchVars /\ UNCHANGED <<geo, pendingEffect>>
    /\ Render

\* mutant of SetMaxTemperature: the derived views are memoised on weatherData
\* alone and are not recomputed
SetMaxTemperature_StaleRender ==
    /\ Idle
    /\ \E v \in MaxTemperatureChoices : v # maxTemperature /\ maxTemperature' = v
    /\ UNCHANGED <<maxPrecipitation, maxWindSpeed, minTemperature>>
    /\ lastOp' = OtherOp
    /\ UNCHANGED coordVars /\ UNCHANGED fetchVars /\ UNCHANGED <<geo, pendingEffect>>
    /\ NoRender

SetMaxTemperature ==
    /\ Idle
    /\ \E v \in MaxTemperatureChoices : v # maxTemperature /\ maxTemperature' = v
    /\ UNCHANGED <<maxPrecipitation, maxWindSpeed, minTemperature>>
    /\ lastOp' = OtherOp
    /\ UNCHANGED coordVars /\ UNCHANGED fetchVars /\ UNCHANGED <<geo, pendingEffect>>
    /\ Render

\* The fetch orchestration: location, coordinate fields, effect, button and
\* responses.  These handlers neither read nor write the criteria.
Next ==
    \/ Mount
    \/ GeoSuccess
    \/ GeoError
    \/ SetLatitude
    \/ SetLongitude
    \/ FetchEffect
    \/ ManualRefresh
    \/ Respond

Spec == Init /\ [][Next]_vars

\* every request is answered (the fetch of App.jsx:63 settles, however often
\* the user's edits come in between) and React runs the effects a render scheduled
FairSpec == Spec /\ SF_vars(Respond) /\ WF_vars(FetchEffect)

\* The sliders, moved at any time while forecasts are fetched for the located
\* or the default coordinates.
SliderNext ==
    \/ Mount
    \/ GeoSuccess
    \/ GeoError
    \/ FetchEffect
    \/ ManualRefresh
    \/ Respond
    \/ SetMaxPrecipitation
    \/ SetMaxWindSpeed
    \/ SetMinTemperature
    \/ SetMaxTemperature

SliderSpec == Init /\ [][SliderNext]_vars

\* The derivations, applied to every forecast of the service under every
\* setting of the sliders.  The component has been located and its first
\* request is in flight.
DeriveInit ==
    /\ latitude = "1"
    /\ longitude = "1"
    /\ maxPrecipitation = DEFAULT_MAX_PRECIPITATION
    /\ maxWindSpeed = DEFAULT_MAX_WIND_SPEED
    /\ minTemperature = DEFAULT_MIN_TEMPERATURE
    /\ maxTemperature = DEFAULT_MAX_TEMPERATURE
    /\ weatherData = NullData
    /\ loading = TRUE
    /\ error = ""
    /\ geo = "resolved"
    /\ pendingEffect = "none"
    /\ inflight = <<[latitude |-> "1", longitude |-> "1", tag |-> "plain",
                     latest |-> TRUE]>>
    /\ ridingWindows = <<>>
    /\ gridView = [days |-> <<>>, hours |-> <<>>, grid |-> <<>>]
    /\ dataFrom = "none"
    /\ errFrom = "none"
    /\ lastOp = Op("started", "geo", "plain", TRUE, FALSE)

\* the awaited fetch of App.jsx:63 resolves with a forecast, App.jsx:68-69
RespondForecast ==
    /\ Idle
    /\ \E k \in 1..Len(inflight) :
         /\ \E body \in ForecastBodies : fetchResolved(inflight[k], body)
         /\ inflight' = Without(inflight, k)
    /\ UNCHANGED <<latitude, longitude, geo, pendingEffect>>
    /\ UNCHANGED criteriaVars
    /\ Render

DeriveNext ==
    \/ RespondForecast
    \/ SetMaxPrecipitation
    \/ SetMaxWindSpeed
    \/ SetMinTemperature
    \/ SetMaxTemperature

DeriveSpec == DeriveInit /\ [][DeriveNext]_vars

-----------------------------------------------------------------------------
(* Properties *)

Present(v) == v # NullCoord /\ v # ""
Advisories == {AdvisoryFailed, AdvisoryUnsupported}
Ready == weatherData # NullData /\ error = "" /\ ~loading
Failed == error = FetchError /\ ~loading
AllSettled == inflight = <<>> /\ pendingEffect = "none"
DefaultCriteria ==
    Criteria(DEFAULT_MAX_PRECIPITATION, DEFAULT_MAX_WIND_SPEED,
             DEFAULT_MIN_TEMPERATURE, DEFAULT_MAX_TEMPERATURE)

\* C1: last-issued-request-wins.  Once every issued request has settled, the
\* stored payload and error are the outcome of the request issued last and of
\* no earlier one: either its body is held and there is no error, or its
\* failure is reported and no body is held.
C1_LastIssuedWins ==
    (AllSettled /\ (dataFrom # "none" \/ errFrom # "none")) =>
        \/ weatherData # NullData /\ dataFrom = "latest" /\ error = ""
        \/ weatherData = NullData /\ error = FetchError /\ errFrom = "latest"

\* C2: a call of fetchWeatherData with both coordinates present leaves
\* loading = true, no payload, no error, and has issued exactly one request,
\* for the current latitude and longitude.
C2_FetchStart ==
    [][((FetchEffect \/ ManualRefresh) /\ Present(latitude) /\ Present(longitude)) =>
          /\ loading' = TRUE
          /\ weatherData' = NullData
          /\ error' = ""
          /\ Len(inflight') = Len(inflight) + 1
          /\ \A k \in 1..Len(inflight) :
               /\ inflight'[k].latitude = inflight[k].latitude
               /\ inflight'[k].longitude = inflight[k].longitude
          /\ LET r == inflight'[Len(inflight')]
             IN  /\ r.latitude = latitude /\ r.longitude = longitude
                 /\ r.latitude = latitude' /\ r.longitude = longitude'
       ]_vars

\* a fetch that started from a failed state: the error it cleared was set,
\* and its one request is in flight for the current coordinates
C2_Witness ==
    /\ lastOp.op = "started" /\ lastOp.tag = "recovery"
    /\ loading /\ weatherData = NullData /\ error = ""
    /\ Len(inflight) = 1
    /\ inflight[1].latitude = latitude /\ inflight[1].longitude = longitude

C4_FailureGivesFailed ==
    (lastOp.op = "rejected" /\ inflight = <<>>) =>
        /\ error = FetchError
        /\ weatherData = NullData
        /\ loading = FALSE

\* C5: every settled request, resolved or rejected, leaves loading = false, and
\* when every request is answered loading never stays true for ever.
C5_LoadingEnds ==
    /\ [][Respond => loading' = FALSE]_vars
    /\ loading ~> ~loading

\* a request failed and loading was reset
C5_Witness == lastOp.op = "rejected" /\ ~loading /\ error = FetchError

\* C6: when a request resolves with a body that lacks the hourly arrays, an
\* error message is set and the body is not held as a payload.
C6_MalformedIsFailed ==
    (lastOp.op = "resolved" /\ ~lastOp.hourly) =>
        /\ error # ""
        /\ weatherData = NullData

\* C7: Failed is left by a manual refresh.  In a Failed state with both
\* coordinates present the refresh button is enabled; pressing it gives Loading
\* with the error cleared and one more request in flight; and a successful
\* answer that arrives in Loading with no error gives Ready.
C7_FailedNotAbsorbing ==
    /\ []((Failed /\ Idle /\ Present(latitude) /\ Present(longitude)
            /\ Len(inflight) < MaxInFlight) => ENABLED ManualRefresh)
    /\ [][(ManualRefresh /\ Failed /\ Present(latitude) /\ Present(longitude)) =>
            (loading' /\ error' = "" /\ weatherData' = NullData
             /\ Len(inflight') = Len(inflight) + 1)]_vars
    /\ [][(Respond /\ loading /\ error = "" /\ lastOp'.op = "resolved") =>
            Ready']_vars

\* the answer to a refresh pressed in a Failed state was stored: Ready
C7_Witness ==
    /\ lastOp.op = "resolved" /\ lastOp.tag = "recovery"
    /\ Ready /\ dataFrom = "latest"

\* C8: after the location fallback the coordinates are the default pair and
\* the advisory message is shown, and it is still shown when the fetch that the
\* fallback coordinates triggered has completed successfully.
C8_AdvisorySurfaced ==
    /\ (pendingEffect = "fallback" =>
          /\ latitude = DefaultLatitude /\ longitude = DefaultLongitude
          /\ error \in Advisories)
    /\ ((lastOp.op = "resolved" /\ lastOp.tag = "fallback" /\ lastOp.hourly) =>
          error \in Advisories)

\* C9: every change of the coordinate pair schedules the fetch effect; the
\* effect, when both coordinates are present, issues a request for them without
\* the button; and no request is issued, and none exists, while a coordinate
\* is still null.
C9_CoordinateChangeFetches ==
    /\ [][<<latitude, longitude>>' # <<latitude, longitude>> =>
            pendingEffect' # "none"]_vars
    /\ [](pendingEffect # "none" => ENABLED FetchEffect)
    /\ [][(pendingEffect # "none" /\ Present(latitude) /\ Present(longitude)) =>
            /\ pendingEffect' = "none"
            /\ Len(inflight') = Len(inflight) + 1
            /\ LET r == inflight'[Len(inflight')]
               IN  /\ r.latitude = latitude /\ r.longitude = longitude
                   /\ lastOp'.by = pendingEffect /\ lastOp'.by # "manual"]_vars
    /\ [][Len(inflight') > Len(inflight) =>
            (Present(latitude) /\ Present(longitude))]_vars
    /\ []((latitude = NullCoord \/ longitude = NullCoord) =>
            (inflight = <<>> /\ weatherData = NullData /\ ~loading))

\* a request issued by the effect after the user edited a coordinate, while
\* the request for the earlier coordinates is still in flight
C9_Witness ==
    /\ lastOp.op = "started" /\ lastOp.by = "edit"
    /\ Len(inflight) = 2
    /\ inflight[2].latitude = latitude /\ inflight[2].longitude = longitude
    /\ <<inflight[1].latitude, inflight[1].longitude>> # <<latitude, longitude>>

\* C10: a change of a criterion leaves the payload, loading, error and the
\* coordinates as they were and issues no request, and the rendered windows and
\* grid are those of the unchanged payload under the new criteria.
C10_CriteriaChange ==
    [][criteriaVars' # criteriaVars =>
         /\ UNCHANGED <<weatherData, loading, error, latitude, longitude, inflight>>
         /\ pendingEffect' = "none"
         /\ ridingWindows' = findRidingWindows(weatherData, CurrentCriteria')
         /\ \E clock \in ClockReadings :
              gridView' = organizeWeatherGrid(weatherData, CurrentCriteria',
                                              clock * MsPerHour)
      ]_vars

\* a payload is held and the criteria differ from the defaults in a way that
\* changes the windows
C10_Witness ==
    /\ hasHourly(weatherData)
    /\ CurrentCriteria # DefaultCriteria
    /\ ridingWindows = findRidingWindows(weatherData, CurrentCriteria)
    /\ ridingWindows # findRidingWindows(weatherData, DefaultCriteria)
    /\ gridView.grid # <<>>

\* C11: the refresh button starts no fetch while a request is outstanding: a
\* request issued by the button is the only one in flight.
C11_RefreshDisabledWhileFetching ==
    (lastOp.op = "started" /\ lastOp.by = "manual") => Len(inflight) = 1

\* the forecast held, and its derivations' vocabulary
Hourly == weatherData.hourly
Hours == IF hasHourly(weatherData) THEN 1..Len(Hourly.time) ELSE {}
TimeAt(i) == DateParse(Hourly.time[i])
SuitableAt(i) ==
    isSuitable(Hourly.precipitation[i], Hourly.wind_speed_10m[i],
               Hourly.temperature_2m[i], CurrentCriteria)
InWindow(w, instant) == w.start <= instant /\ instant < w.end

\* C12: the windows of a forecast with strictly increasing time stamps are in
\* chronological order, do not overlap (a window ends no later than the next
\* starts) and each ends strictly after it starts.
C12_WindowsOrdered ==
    (\A i \in Hours : i > 1 => TimeAt(i - 1) < TimeAt(i)) =>
        /\ ridingWindows = findRidingWindows(weatherData, CurrentCriteria)
        /\ \A k \in 1..Len(ridingWindows) :
             ridingWindows[k].end > ridingWindows[k].start
        /\ \A k \in 1..(Len(ridingWindows) - 1) :
             /\ ridingWindows[k].end <= ridingWindows[k + 1].start
             /\ ridingWindows[k].start < ridingWindows[k + 1].start

\* two windows were derived from a forecast of four hours
C12_Witness ==
    /\ hasHourly(weatherData) /\ Len(Hourly.time) = 4
    /\ Len(ridingWindows) = 2

\* C13: when every hour of a non-empty forecast is suitable there is exactly
\* one window, from the first time stamp to one hour after the last.
C13_AllSuitableOneWindow ==
    (Hours # {} /\ \A i \in Hours : SuitableAt(i)) =>
        ridingWindows = <<[start |-> TimeAt(1),
                           end |-> TimeAt(Len(Hourly.time)) + MsPerHour]>>

\* four hours, one of them windy, all suitable once the wind limit is raised
C13_Witness ==
    /\ hasHourly(weatherData) /\ Len(Hourly.time) = 4
    /\ \A i \in Hours : SuitableAt(i)
    /\ \E i \in Hours : Hourly.wind_speed_10m[i] > DEFAULT_MAX_WIND_SPEED
    /\ Len(ridingWindows) = 1

\* C14: when no hour of a non-empty forecast is suitable, and so whenever
\* maxTemperature < minTemperature, there is no window.
C14_NoneSuitableNoWindow ==
    /\ (Hours # {} /\ \A i \in Hours : ~SuitableAt(i)) => ridingWindows = <<>>
    /\ (Hours # {} /\ maxTemperature < minTemperature) =>
          /\ \A i \in Hours : ~SuitableAt(i)
          /\ ridingWindows = <<>>

\* four fine hours under a minimum temperature above the maximum
C14_Witness ==
    /\ hasHourly(weatherData) /\ Len(Hourly.time) = 4
    /\ \A i \in Hours : Hourly.precipitation[i] = 0 /\ Hourly.wind_speed_10m[i] = 5
    /\ maxTemperature < minTemperature
    /\ ridingWindows = <<>>

\* the forecast and the windows of Scenario A: four consecutive hours, wind
\* above the limit in the third
ScenarioA ==
    [time |-> <<5, 6, 7, 8>>,
     precipitation |-> <<0, 0, 0, 0>>,
     wind_speed_10m |-> <<5, 5, 25, 5>>,
     temperature_2m |-> <<15, 15, 15, 15>>]
ScenarioAWindows ==
    <<[start |-> DateParse(5), end |-> DateParse(7)],
      [start |-> DateParse(8), end |-> DateParse(8) + MsPerHour]>>

\* C15: the windows are the maximal runs of suitable hours.  An hour is
\* suitable exactly when its time stamp lies in a window [start, end); a window
\* starts at a suitable hour whose predecessor is unsuitable or missing, runs
\* over suitable hours only, and ends at the first unsuitable hour after its
\* start or, when there is none, one hour after the last time stamp; Scenario A
\* gives [time[0], time[2]) and [time[3], time[3] + 1h).
C15_MaximalRuns ==
    /\ \A i \in Hours :
         SuitableAt(i) <=>
            \E k \in 1..Len(ridingWindows) : InWindow(ridingWindows[k], TimeAt(i))
    /\ \A k \in 1..Len(ridingWindows) :
         \E i \in Hours :
            /\ ridingWindows[k].start = TimeAt(i)
            /\ SuitableAt(i)
            /\ (i = 1 \/ ~SuitableAt(i - 1))
            /\ LET after == {j \in Hours : j > i /\ ~SuitableAt(j)}
               IN  IF after = {}
                   THEN ridingWindows[k].end = TimeAt(Len(Hourly.time)) + MsPerHour
                   ELSE \E j \in after :
                           /\ \A m \in after : j <= m
                           /\ ridingWindows[k].end = TimeAt(j)
    /\ (hasHourly(weatherData) /\ Hourly = ScenarioA
          /\ CurrentCriteria = Criteria(0, 20, 10, 35)) =>
            ridingWindows = ScenarioAWindows

\* Scenario A under the criteria of the scenario
C15_Witness ==
    /\ hasHourly(weatherData) /\ Hourly = ScenarioA
    /\ CurrentCriteria = Criteria(0, 20, 10, 35)
    /\ Len(ridingWindows) = 2

EmptyGrid == [days |-> <<>>, hours |-> <<>>, grid |-> <<>>]

\* C16: in every state whose payload is null, lacks the hourly field or has
\* empty hourly arrays (before the first fetch, while loading, after a failure
\* or after such a body was stored) the rendered windows are [] and the
\* rendered grid is {days: [], hours: [], grid: []}.
C16_EmptyDerivations ==
    (\/ weatherData = NullData
     \/ "hourly" \notin DOMAIN weatherData
     \/ Len(weatherData.hourly.time) = 0) =>
        /\ ridingWindows = <<>>
        /\ gridView = EmptyGrid
        /\ findRidingWindows(weatherData, CurrentCriteria) = <<>>
        /\ \A clock \in ClockReadings :
             organizeWeatherGrid(weatherData, CurrentCriteria, clock * MsPerHour)
                = EmptyGrid

\* a body without the hourly field was stored and rendered
C16_Witness ==
    /\ lastOp.op = "resolved"
    /\ weatherData # NullData /\ "hourly" \notin DOMAIN weatherData
    /\ ridingWindows = <<>> /\ gridView = EmptyGrid

\* the observations of the forecast at the calendar day of instant date and the
\* hour of day hour
ObservationsAt(date, hour) ==
    {i \in Hours : /\ toDateString(TimeAt(i)) = toDateString(date)
                   /\ getHours(TimeAt(i)) = hour}

\* C17: the days of the grid are in ascending order of date with one entry for
\* a calendar day, and its hours are hours of day >= 6 in ascending order
\* without duplicates.
C17_DaysAndHoursSorted ==
    /\ \A a, b \in 1..Len(gridView.days) :
         a < b => /\ gridView.days[a].date < gridView.days[b].date
                  /\ toDateString(gridView.days[a].date)
                        # toDateString(gridView.days[b].date)
    /\ \A j \in 1..Len(gridView.hours) : gridView.hours[j] >= 6
    /\ \A a, b \in 1..Len(gridView.hours) :
         a < b => gridView.hours[a] < gridView.hours[b]
    /\ \A i \in Hours :
         /\ \E d \in 1..Len(gridView.days) :
              toDateString(gridView.days[d].date) = toDateString(TimeAt(i))
         /\ getHours(TimeAt(i)) >= 6 =>
              \E j \in 1..Len(gridView.hours) : gridView.hours[j] = getHours(TimeAt(i))

\* a forecast over two days with an observation before 06:00: two day rows,
\* two hour columns, 05:00 not among them
C17_Witness ==
    /\ \E i \in Hours : getHours(TimeAt(i)) < 6
    /\ Len(gridView.days) = 2
    /\ Len(gridView.hours) >= 2

\* C18: the grid has a row for each day and in it a cell for each listed hour.
\* The cell is null when the forecast has no observation at that day and hour;
\* otherwise it carries the observation's temperature, precipitation and wind
\* speed, suitable by the four thresholds, and isPast by comparing the
\* observation's time stamp with the clock read at the render.
C18_GridCells ==
    /\ Len(gridView.grid) = Len(gridView.days)
    /\ \A d \in 1..Len(gridView.grid) :
         /\ gridView.grid[d].day = gridView.days[d]
         /\ Len(gridView.grid[d].hours) = Len(gridView.hours)
    /\ \E clock \in ClockReadings :
         \A d \in 1..Len(gridView.grid) : \A j \in 1..Len(gridView.hours) :
            LET cell == gridView.grid[d].hours[j]
                obs == ObservationsAt(gridView.days[d].date, gridView.hours[j])
            IN  IF obs = {} THEN cell = NullCell
                ELSE /\ cell # NullCell
                     /\ \A i \in obs :
                          /\ cell.temperature = Hourly.temperature_2m[i]
                          /\ cell.precipitation = Hourly.precipitation[i]
                          /\ cell.windSpeed = Hourly.wind_speed_10m[i]
                          /\ cell.suitable = SuitableAt(i)
                          /\ cell.isPast = (TimeAt(i) < clock * MsPerHour)

\* a grid of two days with a null cell, a present unsuitable cell and a
\* present cell of an hour already past
C18_Witness ==
    /\ Len(gridView.grid) = 2
    /\ \E d \in 1..Len(gridView.grid) : \E j \in 1..Len(gridView.hours) :
         gridView.grid[d].hours[j] = NullCell
    /\ \E d \in 1..Len(gridView.grid) : \E j \in 1..Len(gridView.hours) :
         /\ gridView.grid[d].hours[j] # NullCell
         /\ ~gridView.grid[d].hours[j].suitable
    /\ \E d \in 1..Len(gridView.grid) : \E j \in 1..Len(gridView.hours) :
         /\ gridView.grid[d].hours[j] # NullCell
         /\ gridView.grid[d].hours[j].isPast

\* C19: the two views agree.  Every observation at an hour of day >= 6 has a
\* grid cell, and that cell is suitable exactly when the observation's time
\* stamp lies inside one of the windows.
C19_ViewsAgree ==
    \A i \in Hours :
        getHours(TimeAt(i)) >= 6 =>
            \E d \in 1..Len(gridView.grid) : \E j \in 1..Len(gridView.hours) :
                /\ toDateString(gridView.days[d].date) = toDateString(TimeAt(i))
                /\ gridView.hours[j] = getHours(TimeAt(i))
                /\ gridView.grid[d].hours[j] # NullCell
                /\ gridView.grid[d].hours[j].suitable <=>
                      \E k \in 1..Len(ridingWindows) :
                          InWindow(ridingWindows[k], TimeAt(i))

\* the sliders were moved, and under them the forecast has a suitable and an
\* unsuitable hour of day >= 6 and at least one window
C19_Witness ==
    /\ CurrentCriteria # DefaultCriteria
    /\ Len(ridingWindows) >= 1
    /\ \E i, m \in Hours :
         /\ getHours(TimeAt(i)) >= 6 /\ SuitableAt(i)
         /\ getHours(TimeAt(m)) >= 6 /\ ~SuitableAt(m)

\* C20: no automatic retry.  A step issues a request exactly when it is a
\* trigger taken with both coordinates present, and then it issues one: the
\* button, or the run of the effect that a change of the coordinate pair
\* scheduled (one run for a change, and no run without one).  So the number of
\* requests issued is at every moment the number of such triggers.  A failed
\* response takes its request out of flight, issues none and schedules nothing.
C20_NoAutomaticRetry ==
    /\ [][Len(inflight') > Len(inflight) <=>
            ((FetchEffect \/ ManualRefresh)
              /\ Present(latitude) /\ Present(longitude))]_vars
    /\ [][Len(inflight') > Len(inflight) =>
            /\ Len(inflight') = Len(inflight) + 1
            /\ \A k \in 1..Len(inflight) :
                 /\ inflight'[k].latitude = inflight[k].latitude
                 /\ inflight'[k].longitude = inflight[k].longitude]_vars
    /\ [][(pendingEffect = "none" /\ pendingEffect' # "none") <=>
            <<latitude, longitude>>' # <<latitude, longitude>>]_vars
    /\ [][pendingEffect # "none" => (FetchEffect /\ pendingEffect' = "none")]_vars
    /\ [][(Respond /\ lastOp'.op = "rejected") =>
            /\ Len(inflight') = Len(inflight) - 1
            /\ pendingEffect' = "none"]_vars
    /\ [][Respond => Len(inflight') = Len(inflight) - 1]_vars

\* the only request failed: nothing is in flight, no effect is scheduled and
\* the coordinates are still present
C20_Witness ==
    /\ lastOp.op = "rejected"
    /\ inflight = <<>> /\ pendingEffect = "none"
    /\ Present(latitude) /\ Present(longitude)
    /\ error = FetchError /\ weatherData = NullData

\* C21: a fetch error and a stored payload are never held together, so the
\* fetch state is one of Idle, Loading, Ready and Failed.
C21_ErrorExcludesPayload ==
    ~(error = FetchError /\ weatherData # NullData)

\* C22: while loading is true the stored payload is null and the error is empty.
C22_LoadingMeansCleared ==
    loading => (weatherData = NullData /\ error = "")

====
